---------------------------- MODULE Spec2Model ----------------------------
(***************************************************************************)
(* Model of httpie's declarative command-line specification                *)
(* (src/httpie/cli/options.py): the ParserSpec / Group / Argument tree,    *)
(* its builder operations, and the two compilers to_argparse and to_json.  *)
(*                                                                         *)
(* Python values are tagged records [kind, v]; a dict is a record over a   *)
(* fixed key set whose missing keys hold Absent.  Python texts are         *)
(* sequences of one-character tokens ("SP" is a blank, "NL" a line break). *)
(***************************************************************************)
EXTENDS Integers, Sequences, FiniteSets, TLC

VARIABLES
    parser_spec,      \* the ParserSpec tree under construction / compiled
    finalized,        \* the caller has run ParserSpec.finalize()
    declared,         \* history: what new_group / add_argument were called with
    json_result,      \* what the latest to_json call returned
    argparse_result,  \* what the latest to_argparse call returned
    argument,         \* input of Argument.serialize (as a pure function)
    serialized,       \* its outcome
    configuration,    \* input of map_qualifiers (as a pure function)
    qualifier_map,    \* its second input
    mapped            \* its outcome

vars == <<parser_spec, finalized, declared, json_result, argparse_result,
          argument, serialized, configuration, qualifier_map, mapped>>

-----------------------------------------------------------------------------
(* Bounds *)
MaxHelpLen == 3
MaxGroups == 2
MaxArgs == 2

-----------------------------------------------------------------------------
(* Python values *)
Absent == [kind |-> "absent", v |-> "-"]
None == [kind |-> "none", v |-> "-"]
True == [kind |-> "bool", v |-> TRUE]
Str(s) == [kind |-> "str", v |-> s]
List(s) == [kind |-> "list", v |-> s]
Name(n) == [kind |-> "name", v |-> n]
IntVal(n) == [kind |-> "int", v |-> n]
Callable(n) == [kind |-> "callable", v |-> n]
Instance(cls) == [kind |-> "instance", v |-> cls]
Getter(values) == [kind |-> "getter", v |-> values]
Unavailable == [kind |-> "unavailable", v |-> "-"]
Formatter(text) == [kind |-> "formatter", v |-> text]

NotRun == [ok |-> FALSE, error |-> "not run"]

Qualifiers == {"OPTIONAL", "ZERO_OR_MORE", "SUPPRESS"}
Qualifier(q) == [kind |-> "qualifier", v |-> q]
isinstance_Qualifiers(value) == value.kind = "qualifier"

PARSER_SPEC_VERSION == "1.0.0"

\* configuration keys the model tracks
ConfigKeys == {"action", "nargs", "help", "type", "choices", "metavar",
               "getter", "help_formatter"}
EmptyConfiguration == [k \in ConfigKeys |-> Absent]
Keys(d) == {k \in DOMAIN d : d[k] # Absent}

-----------------------------------------------------------------------------
(* str.strip / str.splitlines on texts *)
IsSpace(c) == c \in {"SP", "NL"}

RECURSIVE lstrip(_)
lstrip(s) ==
    IF s = << >> THEN s
    ELSE IF IsSpace(Head(s)) THEN lstrip(Tail(s)) ELSE s

RECURSIVE rstrip(_)
rstrip(s) ==
    IF s = << >> THEN s
    ELSE IF IsSpace(s[Len(s)]) THEN rstrip(SubSeq(s, 1, Len(s) - 1)) ELSE s

strip(s) == rstrip(lstrip(s))

\* index of the first line break of s, 0 when there is none
FirstBreak(s) ==
    IF \E i \in 1..Len(s) : s[i] = "NL"
    THEN CHOOSE i \in 1..Len(s) : s[i] = "NL" /\ \A j \in 1..(i - 1) : s[j] # "NL"
    ELSE 0

RECURSIVE splitlines(_)
splitlines(s) ==
    IF s = << >> THEN << >>
    ELSE LET i == FirstBreak(s) IN
         IF i = 0 THEN <<s>>
         ELSE <<SubSeq(s, 1, i - 1)>> \o splitlines(SubSeq(s, i + 1, Len(s)))

-----------------------------------------------------------------------------
(* map_qualifiers *)
\* qualifier_map is a record over Qualifiers; a missing entry holds Absent
map_qualifiers_passthrough(config, qmap) ==
    [ok |-> TRUE, error |-> "",
     value |-> [k \in DOMAIN config |->
                  IF isinstance_Qualifiers(config[k]) /\ qmap[config[k].v] # Absent
                  THEN qmap[config[k].v] ELSE config[k]]]

map_qualifiers(config, qmap) ==
    IF \E k \in Keys(config) :
          isinstance_Qualifiers(config[k]) /\ qmap[config[k].v] = Absent
    THEN [ok |-> FALSE, error |-> "KeyError", value |-> EmptyConfiguration]
    ELSE [ok |-> TRUE, error |-> "",
          value |-> [k \in DOMAIN config |->
                       IF isinstance_Qualifiers(config[k])
                       THEN qmap[config[k].v] ELSE config[k]]]

-----------------------------------------------------------------------------
(* Lazy Choice Resolver (httpie.cli.utils.LazyChoices) *)
\* LazyChoices(aliases, dest=None, **configuration).load()
LazyChoices_load(aliases, config) == config["getter"]
\* LazyChoices(aliases, dest=None, **configuration).help
LazyChoices_help(aliases, config) == Str(config["help_formatter"].v)

-----------------------------------------------------------------------------
(* Argument.serialize *)
JSON_DIRECT_MIRROR_OPTIONS == {"choices", "metavar"}

JsonKeys == {"options", "is_positional", "is_optional", "is_variadic",
             "description", "python_type_name", "choices", "metavar"}
EmptyJson == [k \in JsonKeys |-> Absent]

JSON_QUALIFIER_TO_OPTIONS ==
    [q \in Qualifiers |->
        CASE q = "OPTIONAL" -> {"is_optional"}
          [] q = "ZERO_OR_MORE" -> {"is_optional", "is_variadic"}
          [] q = "SUPPRESS" -> {}]

\* dict.update: entries of new that are present replace those of old
update(old, new) == [k \in DOMAIN old |-> IF new[k] # Absent THEN new[k] ELSE old[k]]

\* lines 92-96: pop 'action'; resolve the lazy choices into the local copy
unpack_lazy_choices_keep_static(aliases, config) ==
    LET popped == [config EXCEPT !["action"] = Absent] IN
    IF config["action"] = Name("lazy_choices")
    THEN LET loaded == LazyChoices_load(aliases, popped) IN
         IF loaded = Unavailable
         THEN [error |-> "ResolutionError", configuration |-> popped, load_calls |-> 1]
         ELSE [error |-> "",
               configuration |->
                   [popped EXCEPT
                      !["choices"] = IF @ = Absent THEN List(loaded.v) ELSE @,
                      !["help"] = IF @ = Absent
                                  THEN LazyChoices_help(aliases, popped) ELSE @],
               load_calls |-> 1]
    ELSE [error |-> "", configuration |-> popped, load_calls |-> 0]

unpack_lazy_choices(aliases, config) ==
    LET popped == [config EXCEPT !["action"] = Absent] IN
    IF config["action"] = Name("lazy_choices")
    THEN LET loaded == LazyChoices_load(aliases, popped) IN
         IF loaded = Unavailable
         THEN [error |-> "ResolutionError", configuration |-> popped, load_calls |-> 1]
         ELSE [error |-> "",
               configuration |->
                   [popped EXCEPT !["choices"] = List(loaded.v),
                                  !["help"] = LazyChoices_help(aliases, popped)],
               load_calls |-> 1]
    ELSE [error |-> "", configuration |-> popped, load_calls |-> 0]

\* lines 98-103
options_fields_swapped(aliases, config) ==
    IF aliases = << >>
    THEN [error |-> "", fields |-> [EmptyJson EXCEPT !["options"] = List(aliases)]]
    ELSE IF config["metavar"] = Absent
         THEN [error |-> "KeyError: metavar", fields |-> EmptyJson]
         ELSE [error |-> "",
               fields |-> [EmptyJson EXCEPT !["options"] = config["metavar"],
                                            !["is_positional"] = True]]

options_fields(aliases, config) ==
    IF aliases # << >>
    THEN [error |-> "", fields |-> [EmptyJson EXCEPT !["options"] = List(aliases)]]
    ELSE IF config["metavar"] = Absent
         THEN [error |-> "KeyError: metavar", fields |-> EmptyJson]
         ELSE [error |-> "",
               fields |-> [EmptyJson EXCEPT !["options"] = config["metavar"],
                                            !["is_positional"] = True]]

\* lines 105-106
qualifier_fields_no_default(config) ==
    LET nargs == config["nargs"] IN
    IF isinstance_Qualifiers(nargs)
    THEN [error |-> "",
          fields |-> [k \in JsonKeys |->
                        IF k \in JSON_QUALIFIER_TO_OPTIONS[nargs.v] THEN True ELSE Absent]]
    ELSE [error |-> "KeyError: nargs", fields |-> EmptyJson]

qualifier_fields(config) ==
    LET nargs == IF config["nargs"] = Absent THEN Qualifier("SUPPRESS")
                 ELSE config["nargs"] IN
    IF isinstance_Qualifiers(nargs)
    THEN [error |-> "",
          fields |-> [k \in JsonKeys |->
                        IF k \in JSON_QUALIFIER_TO_OPTIONS[nargs.v] THEN True ELSE Absent]]
    ELSE [error |-> "KeyError: nargs", fields |-> EmptyJson]

\* truthiness of a help value: None and '' are falsy, an enum member is truthy
truthy(value) ==
    /\ value # Absent
    /\ value # None
    /\ value # Str(<< >>)

\* lines 108-110
description_field_unsuppressed(config) ==
    LET help_msg == config["help"] IN
    IF truthy(help_msg)
    THEN IF help_msg.kind # "str"
         THEN [error |-> "", fields |-> [EmptyJson EXCEPT !["description"] = help_msg]]
         ELSE LET lines == splitlines(strip(help_msg.v)) IN
              IF lines = << >>
              THEN [error |-> "IndexError", fields |-> EmptyJson]
              ELSE [error |-> "",
                    fields |-> [EmptyJson EXCEPT !["description"] = Str(lines[1])]]
    ELSE [error |-> "", fields |-> EmptyJson]

description_field_unstripped(config) ==
    LET help_msg == config["help"] IN
    IF truthy(help_msg) /\ help_msg # Qualifier("SUPPRESS")
    THEN LET lines == splitlines(help_msg.v) IN
         IF lines = << >>
         THEN [error |-> "IndexError", fields |-> EmptyJson]
         ELSE [error |-> "",
               fields |-> [EmptyJson EXCEPT !["description"] = Str(lines[1])]]
    ELSE [error |-> "", fields |-> EmptyJson]

description_field(config) ==
    LET help_msg == config["help"] IN
    IF truthy(help_msg) /\ help_msg # Qualifier("SUPPRESS")
    THEN LET lines == splitlines(strip(help_msg.v)) IN
         IF lines = << >>
         THEN [error |-> "IndexError", fields |-> EmptyJson]
         ELSE [error |-> "",
               fields |-> [EmptyJson EXCEPT !["description"] = Str(lines[1])]]
    ELSE [error |-> "", fields |-> EmptyJson]

\* lines 112-119: __name__ of the converter, else the name of its class
type_field(config) ==
    LET python_type == config["type"] IN
    IF python_type # Absent /\ python_type # None
    THEN [EmptyJson EXCEPT !["python_type_name"] = Name(python_type.v)]
    ELSE EmptyJson

\* lines 121-125
mirror_fields(config) ==
    [k \in JsonKeys |-> IF k \in JSON_DIRECT_MIRROR_OPTIONS THEN config[k] ELSE Absent]

\* line 88: serialize works on a copy, self.configuration keeps its entries
configuration_after_serialize_aliased(original, local) == local

configuration_after_serialize(original, local) == original

Failure(error, self_config, loads) ==
    [ok |-> FALSE, error |-> error, value |-> EmptyJson,
     load_calls |-> loads, configuration |-> self_config]

Argument_serialize(self) ==
    LET lazy == unpack_lazy_choices(self.aliases, self.configuration)
        config == lazy.configuration
        after == configuration_after_serialize(self.configuration, config)
        options == options_fields(self.aliases, config)
        qualifiers == qualifier_fields(config)
        description == description_field(config)
    IN
    IF lazy.error # "" THEN Failure(lazy.error, after, lazy.load_calls)
    ELSE IF options.error # "" THEN Failure(options.error, after, lazy.load_calls)
    ELSE IF qualifiers.error # "" THEN Failure(qualifiers.error, after, lazy.load_calls)
    ELSE IF description.error # "" THEN Failure(description.error, after, lazy.load_calls)
    ELSE [ok |-> TRUE, error |-> "",
          value |-> update(update(update(update(options.fields, qualifiers.fields),
                                         description.fields),
                                  type_field(config)),
                           mirror_fields(config)),
          load_calls |-> lazy.load_calls,
          configuration |-> after]

-----------------------------------------------------------------------------
(* textwrap.dedent on a description: a sequence of lines [indent, text];   *)
(* a line of blanks only has text = "" and keeps its blanks in indent      *)
Min(S) == CHOOSE x \in S : \A y \in S : x <= y

dedent(text) ==
    LET nonblank == {i \in 1..Len(text) : text[i].text # ""}
        margin == IF nonblank = {} THEN 0 ELSE Min({text[i].indent : i \in nonblank})
    IN [i \in 1..Len(text) |->
          IF text[i].text = "" THEN [indent |-> 0, text |-> ""]
          ELSE [indent |-> text[i].indent - margin, text |-> text[i].text]]

-----------------------------------------------------------------------------
(* ParserSpec and Group: construction *)
ParserSpec(program, description, epilog) ==
    [program |-> program, description |-> description, epilog |-> epilog,
     groups |-> << >>]

\* id stands for the identity of the Group object (its creation rank)
Group(id, name, kwargs) ==
    [id |-> id, name |-> name, description |-> kwargs.description,
     is_mutually_exclusive |-> kwargs.is_mutually_exclusive, arguments |-> << >>]

Argument(aliases, config) == [aliases |-> aliases, configuration |-> config]
IdleArgument == Argument(<< >>, EmptyConfiguration)

Group_finalize(group) == [group EXCEPT !.description = dedent(@)]

finalize(self) ==
    [self EXCEPT !.description = dedent(@),
                 !.epilog = dedent(@),
                 !.groups = [i \in 1..Len(@) |-> Group_finalize(@[i])]]

new_group_prepend(self, group) == [self EXCEPT !.groups = <<group>> \o @]

new_group(self, group) == [self EXCEPT !.groups = Append(@, group)]

add_argument_prepend(group, arg) == [group EXCEPT !.arguments = <<arg>> \o @]

add_argument(group, arg) == [group EXCEPT !.arguments = Append(@, arg)]

-----------------------------------------------------------------------------
(* to_json *)
\* Group.serialize, given the outcomes of its arguments' serialize
Group_serialize(group, outcomes) ==
    [name |-> group.name,
     description |-> group.description,
     is_mutually_exclusive |-> group.is_mutually_exclusive,
     args |-> [j \in 1..Len(outcomes) |-> outcomes[j].value]]

ParserSpec_serialize(self, outcomes) ==
    [name |-> self.program,
     description |-> self.description,
     groups |-> [i \in 1..Len(self.groups) |->
                   Group_serialize(self.groups[i], outcomes[i])]]

EmptyDocument ==
    [version |-> "", spec |-> [name |-> "", description |-> << >>, groups |-> << >>]]

\* positions <<group, argument>> of a tree, and the order they are walked in
Positions(groups) ==
    UNION {{<<i, j>> : j \in 1..Len(groups[i].arguments)} : i \in 1..Len(groups)}
Before(p, q) == p[1] < q[1] \/ (p[1] = q[1] /\ p[2] < q[2])
First(P) == CHOOSE p \in P : \A q \in P : p = q \/ Before(p, q)

\* the outcome carries spec: the tree as the call leaves it
to_json(abstract_options) ==
    LET groups == abstract_options.groups
        outcomes == [i \in 1..Len(groups) |->
                       [j \in 1..Len(groups[i].arguments) |->
                          Argument_serialize(groups[i].arguments[j])]]
        failed == {p \in Positions(groups) : ~outcomes[p[1]][p[2]].ok}
        after == [abstract_options EXCEPT !.groups =
                    [i \in 1..Len(groups) |->
                       [groups[i] EXCEPT !.arguments =
                          [j \in 1..Len(groups[i].arguments) |->
                             [groups[i].arguments[j] EXCEPT !.configuration =
                                outcomes[i][j].configuration]]]]]
    IN IF failed # {}
       THEN [ok |-> FALSE,
             error |-> outcomes[First(failed)[1]][First(failed)[2]].error,
             value |-> EmptyDocument, spec |-> after]
       ELSE [ok |-> TRUE, error |-> "",
             value |-> [version |-> PARSER_SPEC_VERSION,
                        spec |-> ParserSpec_serialize(abstract_options, outcomes)],
             spec |-> after]

-----------------------------------------------------------------------------
(* to_argparse *)
ARGPARSE_QUALIFIER_MAP ==
    [q \in Qualifiers |->
        CASE q = "OPTIONAL" -> Name("?")
          [] q = "ZERO_OR_MORE" -> Name("*")
          [] q = "SUPPRESS" -> Name("==SUPPRESS==")]

Range(f) == {f[i] : i \in DOMAIN f}

\* the parser library's add-argument: the option strings registered so far
\* are shared by every group of the parser; a colliding alias is an error
parser_add_argument(registered, aliases, kwargs) ==
    IF Range(aliases) \cap registered # {}
    THEN [error |-> "SpecificationError", registered |-> registered]
    ELSE [error |-> "", registered |-> registered \cup Range(aliases)]

\* the parser library's create-parser
parser_type(prog, description, epilog) ==
    [prog |-> prog, description |-> description, epilog |-> epilog,
     groups |-> << >>]

EmptyParser == parser_type("", << >>, << >>)

\* lines 163-169: register the arguments of one group, from the k-th on
RECURSIVE register_arguments(_, _, _)
register_arguments(arguments, k, state) ==
    IF k > Len(arguments) \/ state.error # "" THEN state
    ELSE LET abstract_argument == arguments[k]
             kwargs == map_qualifiers(abstract_argument.configuration,
                                      ARGPARSE_QUALIFIER_MAP)
             added == parser_add_argument(state.registered,
                                          abstract_argument.aliases, kwargs.value)
         IN IF ~kwargs.ok
            THEN [state EXCEPT !.error = kwargs.error, !.failed = k]
            ELSE IF added.error # ""
            THEN [state EXCEPT !.error = added.error, !.failed = k]
            ELSE register_arguments(arguments, k + 1,
                    [state EXCEPT
                       !.registered = added.registered,
                       !.actions = Append(@, [option_strings |-> abstract_argument.aliases,
                                              kwargs |-> kwargs.value])])

\* lines 156-169: compile the groups, from the g-th on
RECURSIVE compile_groups(_, _, _)
compile_groups(groups, g, state) ==
    IF g > Len(groups) \/ state.error # "" THEN state
    ELSE LET abstract_group == groups[g]
             registered == register_arguments(abstract_group.arguments, 1,
                              [error |-> "", failed |-> 0,
                               registered |-> state.registered, actions |-> << >>])
             concrete_group ==
                 [title |-> abstract_group.name,
                  description |-> abstract_group.description,
                  mutually_exclusive |-> abstract_group.is_mutually_exclusive,
                  required |-> FALSE,
                  actions |-> registered.actions]
         IN IF registered.error # ""
            THEN [state EXCEPT !.error = registered.error,
                               !.failed_at = <<g, registered.failed>>]
            ELSE compile_groups(groups, g + 1,
                    [state EXCEPT !.registered = registered.registered,
                                  !.groups = Append(@, concrete_group)])

to_argparse_ignore_errors(abstract_options) ==
    LET compiled == compile_groups(abstract_options.groups, 1,
                       [error |-> "", failed_at |-> <<0, 0>>,
                        registered |-> {}, groups |-> << >>])
    IN [ok |-> TRUE, error |-> "", failed_at |-> <<0, 0>>,
        value |-> [parser_type(abstract_options.program,
                               abstract_options.description,
                               abstract_options.epilog)
                   EXCEPT !.groups = compiled.groups]]

to_argparse(abstract_options) ==
    LET compiled == compile_groups(abstract_options.groups, 1,
                       [error |-> "", failed_at |-> <<0, 0>>,
                        registered |-> {}, groups |-> << >>])
    IN IF compiled.error # ""
       THEN [ok |-> FALSE, error |-> compiled.error,
             failed_at |-> compiled.failed_at, value |-> EmptyParser]
       ELSE [ok |-> TRUE, error |-> "", failed_at |-> <<0, 0>>,
             value |-> [parser_type(abstract_options.program,
                                    abstract_options.description,
                                    abstract_options.epilog)
                        EXCEPT !.groups = compiled.groups]]

-----------------------------------------------------------------------------
(* The program: build the tree, finalize it, compile it *)
Line(indent, text) == [indent |-> indent, text |-> text]
ProgramDescription == <<Line(4, "HTTPie"), Line(2, ""), Line(6, "usage")>>
ProgramEpilog == <<Line(2, "See also")>>
\* the groups the builder declares: new_group(name, **kwargs)
GroupDeclarations ==
    {[name |-> "Positional",
      kwargs |-> [description |-> << >>, is_mutually_exclusive |-> FALSE]],
     [name |-> "Output",
      kwargs |-> [description |-> <<Line(4, "About")>>,
                  is_mutually_exclusive |-> TRUE]]}

\* the arguments the builder declares
ArgVerbose ==
    Argument(<<"-v">>,
             [EmptyConfiguration EXCEPT !["action"] = Name("store_true"),
                                        !["help"] = Str(<<"NL", "a", "NL">>)])
ArgStyle ==
    Argument(<<"-s", "-v">>,
             [EmptyConfiguration EXCEPT !["action"] = Name("lazy_choices"),
                                        !["getter"] = Getter(<<"q", "p">>),
                                        !["help_formatter"] = Formatter(<<"a", "NL", "a">>),
                                        !["choices"] = List(<<"x", "y">>),
                                        !["help"] = Qualifier("SUPPRESS")])
ArgUrl ==
    Argument(<< >>,
             [EmptyConfiguration EXCEPT !["metavar"] = Str(<<"a">>),
                                        !["nargs"] = Qualifier("ZERO_OR_MORE")])
BuilderArgs == {ArgVerbose, ArgStyle, ArgUrl}

NoDeclarations == [groups |-> << >>, args |-> << >>]

RECURSIVE SumLen(_)
SumLen(seqs) == IF seqs = << >> THEN 0 ELSE Len(Head(seqs)) + SumLen(Tail(seqs))

Init ==
    /\ parser_spec = ParserSpec("http", ProgramDescription, ProgramEpilog)
    /\ finalized = FALSE
    /\ declared = NoDeclarations
    /\ json_result = NotRun
    /\ argparse_result = NotRun
    /\ argument = IdleArgument /\ serialized = NotRun
    /\ configuration = EmptyConfiguration /\ qualifier_map = 0 /\ mapped = NotRun

Idle == UNCHANGED <<argument, serialized, configuration, qualifier_map, mapped>>

NewGroup ==
    /\ ~finalized
    /\ Len(parser_spec.groups) < MaxGroups
    /\ \E d \in GroupDeclarations :
          LET group == Group(Len(declared.groups) + 1, d.name, d.kwargs) IN
          /\ parser_spec' = new_group(parser_spec, group)
          /\ declared' = [declared EXCEPT !.groups = Append(@, group),
                                          !.args = Append(@, << >>)]
    /\ UNCHANGED <<finalized, json_result, argparse_result>>
    /\ Idle

AddArgument ==
    /\ ~finalized
    /\ SumLen(declared.args) < MaxArgs
    /\ \E i \in 1..Len(parser_spec.groups), arg \in BuilderArgs :
          /\ parser_spec' = [parser_spec EXCEPT !.groups[i] = add_argument(@, arg)]
          /\ declared' = [declared EXCEPT
                            !.args[parser_spec.groups[i].id] = Append(@, arg)]
    /\ UNCHANGED <<finalized, json_result, argparse_result>>
    /\ Idle

Finalize ==
    /\ ~finalized
    /\ finalized' = TRUE
    /\ parser_spec' = finalize(parser_spec)
    /\ UNCHANGED <<declared, json_result, argparse_result>>
    /\ Idle

ToJson ==
    /\ finalized
    /\ LET outcome == to_json(parser_spec) IN
          /\ json_result' = [ok |-> outcome.ok, error |-> outcome.error,
                             value |-> outcome.value,
                             repeated |-> json_result # NotRun]
          /\ parser_spec' = outcome.spec
    /\ UNCHANGED <<finalized, declared, argparse_result>>
    /\ Idle

ToArgparse ==
    /\ finalized
    /\ argparse_result' = to_argparse(parser_spec)
    /\ UNCHANGED <<parser_spec, finalized, declared, json_result>>
    /\ Idle

Next == NewGroup \/ AddArgument \/ Finalize \/ ToJson \/ ToArgparse

Spec == Init /\ [][Next]_vars

-----------------------------------------------------------------------------
(* Argument.serialize as a pure function: its inputs *)
Chars == {"a", "SP", "NL"}
Texts(n) == UNION {[1..m -> Chars] : m \in 0..n}

AliasesVals == {<< >>, <<"-a">>, <<"-a", "--bb">>}
ActionVals == {Absent, Name("store_true"), Name("lazy_choices")}
NargsVals == {Absent, IntVal(2)} \cup {Qualifier(q) : q \in Qualifiers}
HelpVals == {Absent, None, Qualifier("SUPPRESS")} \cup {Str(t) : t \in Texts(MaxHelpLen)}
TypeVals == {Absent, None, Callable("int"), Instance("KeyValueArgType")}
ChoicesVals == {Absent, None, List(<<"x", "y">>)}
MetavarVals == {Absent, None, Str(<<"a">>)}
GetterVals == {Getter(<<"q", "p">>), Unavailable}
FormatterVals == {Formatter(<< >>), Formatter(<<"SP">>), Formatter(<<"a", "NL", "a">>)}

\* an argument carries a getter and a help formatter exactly when it is lazy
Configurations ==
    {c \in [action : ActionVals, nargs : NargsVals, help : HelpVals,
            type : TypeVals, choices : ChoicesVals, metavar : MetavarVals,
            getter : GetterVals \cup {Absent},
            help_formatter : FormatterVals \cup {Absent}] :
        IF c["action"] = Name("lazy_choices")
        THEN c["getter"] # Absent /\ c["help_formatter"] # Absent
        ELSE c["getter"] = Absent /\ c["help_formatter"] = Absent}

Arguments == [aliases : AliasesVals, configuration : Configurations]

InitSerialize ==
    /\ argument \in Arguments
    /\ serialized = NotRun
    /\ parser_spec = ParserSpec("", << >>, << >>) /\ finalized = FALSE
    /\ declared = NoDeclarations
    /\ json_result = NotRun /\ argparse_result = NotRun
    /\ configuration = EmptyConfiguration /\ qualifier_map = 0 /\ mapped = NotRun

Serialize ==
    /\ serialized = NotRun
    /\ serialized' = Argument_serialize(argument)
    /\ argument' = [argument EXCEPT !.configuration = serialized'.configuration]
    /\ UNCHANGED <<parser_spec, finalized, declared, json_result, argparse_result,
                   configuration, qualifier_map, mapped>>

NextSerialize == Serialize

SpecSerialize == InitSerialize /\ [][NextSerialize]_vars

-----------------------------------------------------------------------------
(* map_qualifiers as a pure function *)
MapConfigurations ==
    {[EmptyConfiguration EXCEPT !["nargs"] = n, !["help"] = h, !["metavar"] = m] :
        n \in NargsVals,
        h \in {Absent, None, Qualifier("SUPPRESS"), Str(<<"a">>)},
        m \in {Absent, Str(<<"a">>), Qualifier("OPTIONAL")}}

QualifierMaps ==
    [Qualifiers -> {Absent, Name("?"), Name("*")}] \cup {ARGPARSE_QUALIFIER_MAP}

InitMapQualifiers ==
    /\ configuration \in MapConfigurations
    /\ qualifier_map \in QualifierMaps
    /\ mapped = NotRun
    /\ parser_spec = ParserSpec("", << >>, << >>) /\ finalized = FALSE
    /\ declared = NoDeclarations
    /\ json_result = NotRun /\ argparse_result = NotRun
    /\ argument = IdleArgument /\ serialized = NotRun

MapQualifiers ==
    /\ mapped = NotRun
    /\ mapped' = map_qualifiers(configuration, qualifier_map)
    /\ UNCHANGED <<parser_spec, finalized, declared, json_result, argparse_result,
                   argument, serialized, configuration, qualifier_map>>

NextMapQualifiers == MapQualifiers

SpecMapQualifiers == InitMapQualifiers /\ [][NextMapQualifiers]_vars

-----------------------------------------------------------------------------
(* Properties of Argument.serialize (specification SpecSerialize) *)
Serialized == serialized # NotRun
IsLazy == argument.configuration["action"] = Name("lazy_choices")
QualifierVals == {Qualifier(q) : q \in Qualifiers}

\* the text up to its first line break
FirstLine(t) == IF FirstBreak(t) = 0 THEN t ELSE SubSeq(t, 1, FirstBreak(t) - 1)

C3_Options ==
    Serialized =>
        /\ argument.aliases # << >> => serialized.error # "KeyError: metavar"
        /\ serialized.ok =>
              IF argument.aliases # << >>
              THEN /\ serialized.value["options"] = List(argument.aliases)
                   /\ serialized.value["is_positional"] = Absent
              ELSE /\ serialized.value["options"] = argument.configuration["metavar"]
                   /\ serialized.value["is_positional"] = True

C3_Witness ==
    /\ Serialized /\ serialized.ok
    /\ argument.aliases = << >>
    /\ serialized.value["options"] = Str(<<"a">>)
    /\ serialized.value["is_positional"] = True

\* C4 as stated: for a help text, 'description' is exactly the first line of
\* that text, whatever the text (leading blanks or line breaks, blanks only).
C4_Original ==
    (/\ Serialized /\ ~IsLazy
     /\ argument.configuration["help"].kind = "str"
     /\ argument.configuration["help"].v # << >>
     /\ serialized.error \notin {"KeyError: metavar", "KeyError: nargs"}) =>
        /\ serialized.ok
        /\ serialized.value["description"] =
              Str(FirstLine(argument.configuration["help"].v))

\* C4 amended: 'description' is the first line of the help text after
\* stripping leading and trailing whitespace; an empty help text gives no
\* 'description'; a help text of whitespace only makes serialize fail.
C4_StrippedFirstLine ==
    (/\ Serialized /\ ~IsLazy
     /\ argument.configuration["help"].kind = "str") =>
        LET text == argument.configuration["help"].v IN
        IF text = << >>
        THEN serialized.ok => serialized.value["description"] = Absent
        ELSE IF \A i \in 1..Len(text) : IsSpace(text[i])
        THEN /\ ~serialized.ok
             /\ serialized.error \in {"KeyError: metavar", "KeyError: nargs", "IndexError"}
        ELSE /\ serialized.error # "IndexError"
             /\ serialized.ok =>
                   serialized.value["description"] = Str(FirstLine(strip(text)))

C4_Witness ==
    /\ Serialized /\ serialized.ok /\ ~IsLazy
    /\ argument.configuration["help"] = Str(<<"NL", "a", "SP">>)
    /\ serialized.value["description"] = Str(<<"a">>)

C6_NoNullField ==
    (Serialized /\ serialized.ok) =>
        \A k \in JsonKeys : serialized.value[k] # None

\* C9: a lazy-choice argument has load() invoked by serialize, its 'choices'
\* is the loaded sequence in load() order and its 'description' comes from
\* the resolver's help, overriding static choices and help; an argument that
\* is not lazy never triggers load().
C9_LazyChoices ==
    Serialized =>
        IF IsLazy
        THEN /\ serialized.load_calls >= 1
             /\ serialized.ok =>
                   LET text == argument.configuration["help_formatter"].v IN
                   /\ serialized.value["choices"] =
                         List(argument.configuration["getter"].v)
                   /\ serialized.value["description"] =
                         IF text = << >> THEN Absent ELSE Str(FirstLine(strip(text)))
        ELSE serialized.load_calls = 0

C9_Witness ==
    /\ Serialized /\ serialized.ok /\ IsLazy
    /\ argument.configuration["choices"] = List(<<"x", "y">>)
    /\ argument.configuration["help"] = Str(<<"a">>)
    /\ serialized.value["choices"] = List(<<"q", "p">>)
    /\ serialized.value["description"] = Str(<<"a">>)
    /\ serialized.load_calls = 1

\* C7: map_qualifiers keeps exactly the keys of the configuration, replaces
\* every Qualifier value by its entry of qualifier_map and leaves every other
\* value unchanged; a Qualifier value with no entry makes the call fail and
\* return no mapping.
C7_MapQualifiers ==
    mapped # NotRun =>
        IF \E k \in Keys(configuration) :
              /\ configuration[k] \in QualifierVals
              /\ qualifier_map[configuration[k].v] = Absent
        THEN /\ ~mapped.ok
             /\ mapped.error = "KeyError"
             /\ Keys(mapped.value) = {}
        ELSE /\ mapped.ok
             /\ Keys(mapped.value) = Keys(configuration)
             /\ \A k \in Keys(configuration) :
                   mapped.value[k] =
                      IF configuration[k] \in QualifierVals
                      THEN qualifier_map[configuration[k].v]
                      ELSE configuration[k]

C7_Witness ==
    /\ mapped # NotRun /\ ~mapped.ok
    /\ configuration["nargs"] = Qualifier("OPTIONAL")
    /\ qualifier_map["OPTIONAL"] = Absent
    /\ qualifier_map["SUPPRESS"] # Absent

-----------------------------------------------------------------------------
(* Properties of the builder and the compilers (specification Spec) *)

\* C1: the groups of the schema document are in the order new_group declared
\* them, and the 'args' of each group are, entry by entry, the serialized
\* arguments in the order add_argument was called on that group.
C1_DeclarationOrder ==
    (json_result # NotRun /\ json_result.ok) =>
        LET groups == json_result.value.spec.groups IN
        /\ Len(groups) = Len(declared.groups)
        /\ \A i \in 1..Len(groups) :
              /\ groups[i].name = declared.groups[i].name
              /\ groups[i].is_mutually_exclusive =
                    declared.groups[i].is_mutually_exclusive
              /\ Len(groups[i].args) = Len(declared.args[i])
              /\ \A j \in 1..Len(groups[i].args) :
                    groups[i].args[j] = Argument_serialize(declared.args[i][j]).value

C1_Witness ==
    /\ json_result # NotRun /\ json_result.ok
    /\ Len(declared.groups) = 2
    /\ declared.groups[1].name = "Output" /\ declared.groups[2].name = "Positional"
    /\ declared.args[1] = << >>
    /\ declared.args[2] = <<ArgStyle, ArgUrl>>
    /\ json_result.value.spec.groups[2].args[1]["options"] = List(<<"-s", "-v">>)
    /\ json_result.value.spec.groups[2].args[2]["options"] = Str(<<"a">>)

\* C8: when two arguments of the tree, of one group or of two, share an
\* alias, to_argparse fails with a SpecificationError at the second of them
\* in declaration order and returns no parser; otherwise it returns a parser.
Aliases(p) == Range(parser_spec.groups[p[1]].arguments[p[2]].aliases)
Colliding ==
    {p \in Positions(parser_spec.groups) :
        \E q \in Positions(parser_spec.groups) :
            Before(q, p) /\ Aliases(q) \cap Aliases(p) # {}}

C8_DuplicateAlias ==
    argparse_result # NotRun =>
        IF Colliding # {}
        THEN /\ ~argparse_result.ok
             /\ argparse_result.error = "SpecificationError"
             /\ argparse_result.value = EmptyParser
             /\ argparse_result.failed_at = First(Colliding)
        ELSE argparse_result.ok

C8_Witness ==
    /\ argparse_result # NotRun /\ ~argparse_result.ok
    /\ Len(parser_spec.groups) = 2
    /\ parser_spec.groups[1].arguments = <<ArgVerbose>>
    /\ parser_spec.groups[2].arguments = <<ArgStyle>>
    /\ argparse_result.failed_at = <<2, 1>>

\* C10: once the tree is finalized, no to_json or to_argparse call changes
\* it, and a later to_json call returns the document the earlier one did.
C10_CompilersDoNotMutate ==
    [][finalized =>
         /\ parser_spec' = parser_spec
         /\ (json_result # NotRun /\ json_result' # NotRun) =>
               /\ json_result'.ok = json_result.ok
               /\ json_result'.error = json_result.error
               /\ json_result'.value = json_result.value]_vars

C10_Witness ==
    /\ finalized
    /\ json_result # NotRun /\ json_result.ok /\ json_result.repeated
    /\ argparse_result # NotRun /\ argparse_result.ok
    /\ \E p \in Positions(parser_spec.groups) :
          parser_spec.groups[p[1]].arguments[p[2]] = ArgStyle

=============================================================================
